---- MODULE Spec2Model ----
(***************************************************************************)
(* Model of Exoplanet.py: a Streamlit script that fetches exoplanet        *)
(* records from a remote catalog through a time-bounded memo, derives      *)
(* radial-velocity amplitudes and habitable-zone boundaries, filters the   *)
(* records by mass and period, and forwards questions to a text service.   *)
(*                                                                         *)
(* Quantities are exact integers on fixed grids:                           *)
(*   pl_bmasse   Earth masses            pl_orbper    days                 *)
(*   pl_orbsmax  hundredths of an AU     pl_orbeccen  hundredths           *)
(*   st_mass     tenths of a solar mass  st_teff      kelvin               *)
(* Irrational results (square and cube roots) are kept as exact rationals  *)
(* of the quantity under the root, over arbitrary-precision naturals.      *)
(***************************************************************************)
EXTENDS Integers, Sequences, FiniteSets, TLC

\* pd.to_numeric(errors='coerce') turns what it cannot parse into NaN; every
\* real quantity of the catalog is non-negative, so -1 stands for NaN.
NaN == -1

IsNaN(x) == x = NaN

\* IEEE comparisons: any comparison with NaN is False.
Le(x, y) == ~IsNaN(x) /\ ~IsNaN(y) /\ x <= y
Ge(x, y) == Le(y, x)

Abs(x) == IF x < 0 THEN 0 - x ELSE x

(***************************************************************************)
(* Arbitrary-precision naturals: little-endian limbs in base 10^4, without *)
(* leading zero limbs (zero is the empty sequence).  TLC's integers are    *)
(* 32 bits wide; the physics below needs about 40 decimal digits.          *)
(***************************************************************************)
RECURSIVE BigCarry(_, _)
BigCarry(s, carry) ==
    IF s = <<>>
    THEN IF carry = 0 THEN <<>>
         ELSE <<carry % 10000>> \o BigCarry(<<>>, carry \div 10000)
    ELSE LET t == Head(s) + carry
         IN  <<t % 10000>> \o BigCarry(Tail(s), t \div 10000)

RECURSIVE BigTrim(_)
BigTrim(s) ==
    IF s = <<>> THEN <<>>
    ELSE IF s[Len(s)] = 0 THEN BigTrim(SubSeq(s, 1, Len(s) - 1))
    ELSE s

BigOfNat(n) == BigCarry(<<>>, n)

BigLimb(x, i) == IF i <= Len(x) THEN x[i] ELSE 0

BigAdd(x, y) ==
    LET n == IF Len(x) > Len(y) THEN Len(x) ELSE Len(y)
    IN  BigCarry([i \in 1..n |-> BigLimb(x, i) + BigLimb(y, i)], 0)

\* m is a natural below 200000, so that a limb product fits 32 bits.
BigMulSmall(x, m) ==
    IF m = 0 THEN <<>> ELSE BigCarry([i \in 1..Len(x) |-> x[i] * m], 0)

RECURSIVE BigMul(_, _)
BigMul(x, y) ==
    IF x = <<>> \/ y = <<>> THEN <<>>
    ELSE LET rest == BigMul(x, Tail(y))
         IN  BigAdd(BigMulSmall(x, Head(y)),
                    IF rest = <<>> THEN <<>> ELSE <<0>> \o rest)

RECURSIVE BigPow10(_, _)
BigPow10(x, p) == IF p = 0 THEN x ELSE BigPow10(BigMulSmall(x, 10), p - 1)

RECURSIVE BigPowSmall(_, _)
BigPowSmall(m, n) == IF n = 0 THEN BigOfNat(1) ELSE BigMulSmall(BigPowSmall(m, n - 1), m)

BigLess(x, y) ==
    IF Len(x) # Len(y) THEN Len(x) < Len(y)
    ELSE \E i \in 1..Len(x) :
            /\ x[i] < y[i]
            /\ \A j \in (i + 1)..Len(x) : x[j] = y[j]

BigLeq(x, y) == ~BigLess(y, x)

\* x - y for x >= y
RECURSIVE BigBorrow(_, _, _)
BigBorrow(x, y, borrow) ==
    IF x = <<>> THEN <<>>
    ELSE LET yi == IF y = <<>> THEN 0 ELSE Head(y)
             t  == Head(x) - yi - borrow
         IN  IF t < 0
             THEN <<t + 10000>> \o BigBorrow(Tail(x), IF y = <<>> THEN <<>> ELSE Tail(y), 1)
             ELSE <<t>> \o BigBorrow(Tail(x), IF y = <<>> THEN <<>> ELSE Tail(y), 0)

BigSub(x, y) == BigTrim(BigBorrow(x, y, 0))

(***************************************************************************)
(* Step 4 of the script: calculate_habitable_zone (Exoplanet.py:100-111).  *)
(* Index 1 of each coefficient pair is the inner edge, index 2 the outer.  *)
(***************************************************************************)
\* 1.776, 0.320 in thousandths
S_eff_sun == <<1776, 320>>
\* 0.013, 0.094 in thousandths
coef_a == <<13, 94>>
\* 2.04e-4, 1.73e-4 in millionths
coef_b == <<204, 173>>
\* -2.89e-8, -5.44e-9 in units of 1e-11
coef_c == <<-2890, -544>>
T_sun == 5778

\* One term coef * 10^p * d^n of the flux polynomial, scaled by 10^11:
\* its magnitude and its sign.
PolyTerm(coef, p, d, n) ==
    [mag |-> BigMul(BigPow10(BigOfNat(Abs(coef)), p), BigPowSmall(Abs(d), n)),
     neg |-> (coef < 0) # (d < 0 /\ n % 2 = 1)]

\* S_eff_sun[i] + a[i]*dT + b[i]*dT^2 + c[i]*dT^3 with dT = T_star - T_sun,
\* times 10^11, as the sum of its positive terms and the sum of its
\* negative terms.
Seff(i, T_star) ==
    LET d  == T_star - T_sun
        ts == << PolyTerm(S_eff_sun[i], 8, d, 0), PolyTerm(coef_a[i], 8, d, 1),
                 PolyTerm(coef_b[i], 5, d, 2),    PolyTerm(coef_c[i], 0, d, 3) >>
        Sum(sign) ==
            LET pick(k) == IF ts[k].neg = sign THEN ts[k].mag ELSE <<>>
            IN  BigAdd(BigAdd(pick(1), pick(2)), BigAdd(pick(3), pick(4)))
    IN  [pos |-> Sum(FALSE), neg |-> Sum(TRUE)]

SeffPositive(s) == BigLess(s.neg, s.pos)

\* A radius r >= 0 is held as the exact rational r^2 = num / den; nan when
\* the quantity under np.sqrt is negative or NaN.  (No integer temperature
\* is a root of either flux polynomial, so L / 0 never occurs.)
NanRadius == [nan |-> TRUE, num |-> <<>>, den |-> <<>>]

\* np.sqrt(L / Seff_i) with L = (star_teff / T_sun)^4
EdgeRadius(i, star_teff) ==
    IF IsNaN(star_teff) THEN NanRadius
    ELSE LET s == Seff(i, star_teff)
         IN  IF ~SeffPositive(s) THEN NanRadius
             ELSE [nan |-> FALSE,
                   num |-> BigPow10(BigPowSmall(star_teff, 4), 11),
                   den |-> BigMul(BigPowSmall(T_sun, 4), BigSub(s.pos, s.neg))]

calculate_habitable_zone(star_teff) ==
    << EdgeRadius(1, star_teff), EdgeRadius(2, star_teff) >>

\* r1 < r2 on radii (False when either is nan)
RadiusLess(r1, r2) ==
    /\ ~r1.nan /\ ~r2.nan
    /\ BigLess(BigMul(r1.num, r2.den), BigMul(r2.num, r1.den))

\* radius <= axis and axis <= radius, the axis in hundredths of an AU
RadiusLeAxis(r, axis) ==
    /\ ~r.nan /\ ~IsNaN(axis)
    /\ BigLeq(BigPow10(r.num, 4), BigMulSmall(BigMulSmall(r.den, axis), axis))
AxisLeRadius(axis, r) ==
    /\ ~r.nan /\ ~IsNaN(axis)
    /\ BigLeq(BigMulSmall(BigMulSmall(r.den, axis), axis), BigPow10(r.num, 4))

(***************************************************************************)
(* Step 2 of the script: calculate_radial_velocity (Exoplanet.py:78-91).   *)
(*   K = (2 pi G / P)^(1/3) * M_p / M_s^(2/3) / sqrt(1 - e^2)              *)
(* evaluated left to right in floating point, where x / 0.0 is inf for     *)
(* x > 0 and nan for x = 0, inf * 0.0 is nan, and np.sqrt of a negative    *)
(* number is nan.  A finite amplitude is held as the exact rational        *)
(* (K / K1)^6 = num / den, K1 being the amplitude of one Earth mass around *)
(* one solar mass in a circular one-day orbit:                             *)
(*   (K/K1)^6 = m^6 / (P^2 * M^4 * (1 - e^2)^3)                            *)
(* with M = star_mass/10 and e = eccentricity/100.                         *)
(***************************************************************************)
\* the class of a float: "zero", "pos", "inf" or "nan"
FloatTimes(c, m) ==
    IF c = "nan" \/ IsNaN(m) THEN "nan"
    ELSE IF m = 0 THEN (IF c = "inf" THEN "nan" ELSE "zero")
    ELSE c

\* c / d, for a divisor d >= 0 or NaN
FloatOver(c, d) ==
    IF c = "nan" \/ IsNaN(d) THEN "nan"
    ELSE IF d = 0 THEN (IF c = "zero" THEN "nan" ELSE "inf")
    ELSE c

calculate_radial_velocity(planet_mass, star_mass, orbital_period, eccentricity) ==
    LET x   == 10000 - eccentricity * eccentricity
        \* (2 pi G / P)^(1/3)
        t1  == FloatOver("pos", orbital_period)
        \* ... * planet_mass_kg
        t2  == FloatTimes(t1, planet_mass)
        \* ... / star_mass_kg^(2/3)
        t3  == FloatOver(t2, star_mass)
        \* ... / np.sqrt(1 - e^2)
        t4  == IF IsNaN(eccentricity) \/ x < 0 THEN "nan" ELSE FloatOver(t3, x)
        num == BigPow10(BigPowSmall(planet_mass, 6), 16)
        den == BigMul(BigMul(BigPowSmall(orbital_period, 2), BigPowSmall(star_mass, 4)),
                      BigPowSmall(x, 3))
    IN  IF t4 \in {"zero", "pos"}
        THEN [kind |-> "finite", num |-> num, den |-> den]
        ELSE [kind |-> t4, num |-> <<>>, den |-> <<>>]

\* Step 3: generate_radial_velocity_curve (Exoplanet.py:95-98): 1000 samples
\* of K * sin(2 pi t / P) over [0, time_span].  Every sample is finite
\* exactly when K is, P is a number other than 0 (t / 0.0 is nan or inf) and
\* time_span is a number.
generate_radial_velocity_curve(K, P, time_span) ==
    [K |-> K, P |-> P, time_span |-> time_span, samples |-> 1000,
     finite |-> K.kind = "finite" /\ ~IsNaN(P) /\ P # 0 /\ ~IsNaN(time_span)]

(***************************************************************************)
(* Step 1: fetch_exoplanet_data (Exoplanet.py:26-75).                      *)
(***************************************************************************)
\* A data frame, or Python's None.
None == [none |-> TRUE, rows |-> <<>>]
DataFrame(rows) == [none |-> FALSE, rows |-> rows]

numeric_columns ==
    {"pl_bmasse", "pl_orbper", "pl_orbsmax", "pl_orbeccen", "st_mass", "st_teff", "pl_rade"}

\* A JSON cell of the response: a number, a string holding a number, any
\* other string, or null.
Num(v)    == [k |-> "num", v |-> v]
NumStr(v) == [k |-> "numstr", v |-> v]
Text      == [k |-> "text", v |-> 0]
Null      == [k |-> "null", v |-> 0]

\* pd.to_numeric(x, errors='coerce')
to_numeric(cell) == IF cell.k \in {"num", "numstr"} THEN cell.v ELSE NaN

\* lines 63-65: every numeric column of a row coerced, the others kept
CoerceRow(row) ==
    [f \in DOMAIN row |-> IF f \in numeric_columns THEN to_numeric(row[f]) ELSE row[f]]

\* df.dropna(subset=...) on the rows of a frame
dropna(rows, subset) ==
    SelectSeq(rows, LAMBDA r : \A f \in subset : ~IsNaN(r[f]))

\* a slip in line 68: the planet mass left out of the subset
FetchSubsetNoMass == {"pl_orbper", "pl_orbsmax", "st_mass"}

\* line 68
FetchSubset == {"pl_bmasse", "pl_orbper", "pl_orbsmax", "st_mass"}
\* line 128
SidebarSubset == {"pl_bmasse", "pl_orbper", "pl_orbsmax", "pl_orbeccen", "st_mass"}

ErrFetch   == "Error fetching data"
ErrProcess == "Error processing data"

\* The body of fetch_exoplanet_data on one outcome of requests.get: the value
\* returned and the st.error elements emitted.  A status other than 200 falls
\* off the end of the try block (an implicit None, no message);
\* response.json() failing is a RequestException; an empty row list makes a
\* frame without columns, on which dropna(subset=...) raises KeyError.
FetchBody(remote) ==
    CASE remote.kind \in {"timeout", "connection", "unparseable"} ->
            [value |-> None, msgs |-> {ErrFetch}]
      [] remote.kind = "status" ->
            [value |-> None, msgs |-> {}]
      [] remote.kind = "rows" ->
            IF remote.rows = <<>>
            THEN [value |-> None, msgs |-> {ErrProcess}]
            ELSE [value |-> DataFrame(dropna([i \in 1..Len(remote.rows) |->
                                                 CoerceRow(remote.rows[i])], FetchSubset)),
                  msgs  |-> {}]

\* @st.cache_data(ttl=3600)
TTL == 3600

NoEntry == [has |-> FALSE, value |-> None, msgs |-> {}, age |-> 0]

\* The memoized function: a live entry for the limit is returned (and its
\* recorded elements replayed) without calling the body; otherwise the body
\* runs and whatever it returns is stored, None included.
fetch_exoplanet_data(m, limit, remote) ==
    IF m[limit].has
    THEN [value |-> m[limit].value, msgs |-> m[limit].msgs, memo |-> m,
          queried |-> FALSE, kind |-> "hit"]
    ELSE LET b == FetchBody(remote)
         IN  [value |-> b.value, msgs |-> b.msgs,
              memo  |-> [m EXCEPT ![limit] =
                            [has |-> TRUE, value |-> b.value, msgs |-> b.msgs, age |-> 0]],
              queried |-> TRUE, kind |-> remote.kind]

(***************************************************************************)
(* The views of the script.                                                *)
(***************************************************************************)
\* a slip in line 151: the upper mass bound exclusive
MassPeriodMaskStrict(rows, lo_m, hi_m, lo_p, hi_p) ==
    [i \in 1..Len(rows) |->
        /\ Ge(rows[i].pl_bmasse, lo_m) /\ Le(rows[i].pl_bmasse, hi_m)
        /\ rows[i].pl_bmasse # hi_m
        /\ Ge(rows[i].pl_orbper, lo_p) /\ Le(rows[i].pl_orbper, hi_p)]

\* line 151: the boolean mask of the four comparisons, and the rows it keeps
MassPeriodMask(rows, lo_m, hi_m, lo_p, hi_p) ==
    [i \in 1..Len(rows) |->
        /\ Ge(rows[i].pl_bmasse, lo_m) /\ Le(rows[i].pl_bmasse, hi_m)
        /\ Ge(rows[i].pl_orbper, lo_p) /\ Le(rows[i].pl_orbper, hi_p)]

RECURSIVE TakeMasked(_, _)
TakeMasked(rows, mask) ==
    IF rows = <<>> THEN <<>>
    ELSE (IF Head(mask) THEN <<Head(rows)>> ELSE <<>>) \o TakeMasked(Tail(rows), Tail(mask))

SelectMassPeriod(rows, lo_m, hi_m, lo_p, hi_p) ==
    TakeMasked(rows, MassPeriodMask(rows, lo_m, hi_m, lo_p, hi_p))

\* lines 158-173: one trace per selected planet, with the slider's
\* eccentricity and a time span of two periods
Traces(rows, ecc) ==
    [i \in 1..Len(rows) |->
        LET K == calculate_radial_velocity(rows[i].pl_bmasse, rows[i].st_mass,
                                           rows[i].pl_orbper, ecc)
        IN  [name  |-> rows[i].pl_name,
             curve |-> generate_radial_velocity_curve(K, rows[i].pl_orbper,
                                                      rows[i].pl_orbper * 2)]]

\* a slip in line 277: the inner boundary not compared
InHzOuterOnly(row) ==
    LET hz == calculate_habitable_zone(row.st_teff)
    IN  AxisLeRadius(row.pl_orbsmax, hz[2])

\* lines 273-277: row['hz_inner'] <= row['pl_orbsmax'] <= row['hz_outer']
InHz(row) ==
    LET hz == calculate_habitable_zone(row.st_teff)
    IN  RadiusLeAxis(hz[1], row.pl_orbsmax) /\ AxisLeRadius(row.pl_orbsmax, hz[2])

\* line 279
HabitableExoplanets(rows) == SelectSeq(rows, InHz)

Min(S) == CHOOSE x \in S : \A y \in S : x <= y
Max(S) == CHOOSE x \in S : \A y \in S : x >= y

\* float(df[col].min()) and float(df[col].max()): NaN on an empty column
ColMin(rows, col) == IF rows = <<>> THEN NaN ELSE Min({rows[i][col] : i \in 1..Len(rows)})
ColMax(rows, col) == IF rows = <<>> THEN NaN ELSE Max({rows[i][col] : i \in 1..Len(rows)})

\* st.slider(min_value, max_value, value): the values the user can leave it
\* at, on the grid of the model; with NaN bounds only the default.
Slider(min_value, max_value, value) ==
    IF IsNaN(min_value) \/ IsNaN(max_value) THEN {value} ELSE min_value..max_value

(***************************************************************************)
(* The text service: get_ai_response and analyze_planet                    *)
(* (Exoplanet.py:306-338).  A text is a sequence of words.                 *)
(***************************************************************************)
NoText == [none |-> TRUE, text |-> <<>>]
SomeText(t) == [none |-> FALSE, text |-> t]

\* the record of a model-side outcome that no call has produced
NoOutcome == "none"

\* what model.generate_content can do: answer with a text, hand back a falsy
\* response, or raise
AIOutcomes ==
    { [kind |-> "text", text |-> <<"Planets", "tug", "stars">>],
      [kind |-> "text", text |-> <<"Errors", "of", "measurement", "matter">>],
      [kind |-> "falsy", text |-> <<>>],
      [kind |-> "exception", text |-> <<"quota", "exceeded">>] }

\* lines 308-317, on one outcome of the service
AskBody(outcome) ==
    CASE outcome.kind = "text"      -> SomeText(outcome.text)
      [] outcome.kind = "falsy"     -> NoText
      [] outcome.kind = "exception" -> SomeText(<<"Error:">> \o outcome.text)

\* lines 326-331: the fields the prompt is built from, in order
PlanetFields == <<"pl_name", "hostname", "pl_bmasse", "pl_orbper", "pl_orbsmax", "st_mass">>

\* What building one field of the prompt raises, <<>> when nothing:
\* planet_data[f] on a missing key is a KeyError; the format spec :.2f of
\* the four numeric fields accepts a float (NaN included), not None and not
\* a string.  planet_data holds the cells of a row as the catalog sent them.
FormatError(planet_data, f) ==
    IF f \notin DOMAIN planet_data THEN <<"'" \o f \o "'">>
    ELSE IF f \in {"pl_name", "hostname"} THEN <<>>
    ELSE CASE planet_data[f].k = "num"  -> <<>>
           [] planet_data[f].k = "null" ->
                <<"unsupported", "format", "string", "passed", "to", "NoneType.__format__">>
           [] OTHER ->
                <<"Unknown", "format", "code", "'f'", "for", "object", "of", "type", "'str'">>

\* lines 322-338, on one outcome of the service.  The prompt is built inside
\* the try, before the service is called: a field that does not format ends
\* the call with the error text, whatever the service would have answered.
analyze_planet(planet_data, outcome) ==
    LET bad == { i \in 1..Len(PlanetFields) : FormatError(planet_data, PlanetFields[i]) # <<>> }
    IN  IF bad # {}
        THEN SomeText(<<"Error", "analyzing", "planet:">>
                        \o FormatError(planet_data,
                                       PlanetFields[CHOOSE i \in bad : \A k \in bad : i <= k]))
        ELSE CASE outcome.kind = "text"      -> SomeText(outcome.text)
               [] outcome.kind = "falsy"     -> NoText
               [] outcome.kind = "exception" ->
                     SomeText(<<"Error", "analyzing", "planet:">> \o outcome.text)

\* response.startswith("Error"), on the first word of the text
StartsWithError(t) == t # <<>> /\ t[1] \in {"Error", "Error:", "Errors"}

\* An entry also remembers which outcome of the service produced its value
\* (from); the script never sees that, only the properties below read it.
NoAnswer == [has |-> FALSE, value |-> NoText, from |-> NoOutcome, age |-> 0]

\* @st.cache_data(ttl=3600) around get_ai_response
get_ai_response(m, query, outcome) ==
    IF m[query].has
    THEN [value |-> m[query].value, from |-> m[query].from, memo |-> m]
    ELSE LET v == AskBody(outcome)
         IN  [value |-> v, from |-> outcome.kind,
              memo  |-> [m EXCEPT ![query] =
                            [has |-> TRUE, value |-> v, from |-> outcome.kind, age |-> 0]]]

\* lines 360-364: what tab 6 renders for a response
Render(response) ==
    IF ~response.none /\ response.text # <<>> /\ ~StartsWithError(response.text)
    THEN "markdown"
    ELSE IF ~response.none /\ response.text # <<>> THEN "error"
    ELSE "nothing"

(***************************************************************************)
(* Inputs of the model.                                                    *)
(***************************************************************************)
\* the longest response of the catalog
MaxRows == 2

\* dataset_count, of the 1..10000 the number input allows
Limits == {1, MaxRows}

Row(name, m, p, a, e, sm, t) ==
    [pl_name |-> name, hostname |-> "host", pl_bmasse |-> m, pl_orbper |-> p,
     pl_orbsmax |-> a, pl_orbeccen |-> e, st_mass |-> sm, st_teff |-> t,
     pl_rade |-> Null]

\* The rows the catalog can answer with: a complete row inside its zone, a
\* row inside its zone without eccentricity, a row whose temperature does
\* not parse, a row whose mass does not parse, and a complete row of a
\* hotter star.
CatalogRows ==
    { Row("b", Num(1), Num(2), Num(100), Num(2),  Num(10), Num(5778)),
      Row("c", Num(2), Num(1), Num(100), Null,    Num(10), NumStr(5778)),
      Row("d", Num(2), Num(2), Num(5),   Num(10), Num(8),  Text),
      Row("e", Text,   Num(1), Num(100), Num(0),  Num(10), Num(5778)),
      Row("f", Num(1), Num(1), Num(30),  Num(30), Num(12), Num(5878)) }

\* the rows of the catalog in the runs that exercise the amplitude: the
\* query asks for IS NOT NULL only, so a period, a star mass or a planet mass
\* of 0 can come back
AmplitudeRows ==
    { Row("b", Num(1), Num(1), Num(100), Num(2), Num(10), Num(5778)),
      Row("g", Num(1), Num(0), Num(100), Num(0), Num(10), Num(5778)),
      Row("h", Num(1), Num(1), Num(100), Num(0), Num(0),  Num(5778)),
      Row("i", Num(0), Num(1), Num(100), Num(0), Num(10), Num(5778)) }

\* the rows of the catalog in the runs that exercise the question box
AdvisoryRows == { Row("b", Num(1), Num(2), Num(100), Num(2), Num(10), Num(5778)) }

\* ORDER BY pl_orbper ASC
SortedByPeriod(rows) ==
    \A i \in 1..(Len(rows) - 1) :
        to_numeric(rows[i].pl_orbper) <= to_numeric(rows[i + 1].pl_orbper)

\* SELECT TOP limit ...: at most limit rows of the table, each once, in
\* order of period
Responses(Rows, limit) ==
    { r \in UNION { [1..k -> Rows] : k \in 0..limit } :
        /\ SortedByPeriod(r)
        /\ \A i, j \in 1..Len(r) : i # j => r[i] # r[j] }

FailureKinds == {"timeout", "connection", "status", "unparseable"}

RemoteOutcomes(Rows, limit) ==
    { [kind |-> k, rows |-> <<>>] : k \in FailureKinds }
    \cup { [kind |-> "rows", rows |-> r] : r \in Responses(Rows, limit) }

\* what a call of fetch_exoplanet_data can meet: nothing on a live entry
\* (requests.get is not reached), any outcome of the catalog otherwise
Remotes(m, Rows, limit) ==
    IF m[limit].has THEN { [kind |-> "none", rows |-> <<>>] }
    ELSE RemoteOutcomes(Rows, limit)

\* the eccentricity slider runs over 0.00 .. 1.00 in steps of 0.01: its two
\* ends, and with a value in between
SliderEnds == {0, 100}
Eccentricities == {0, 50, 100}

Questions == {"What are hot Jupiters?"}

\* what the question box can hold; empty when the user asks nothing
Queries == {""} \cup Questions

\* the star temperatures calculate_habitable_zone is applied to on its own:
\* T_sun - 19*MaxTempIdx .. T_sun + 19*MaxTempIdx in steps of 19 K
MaxTempIdx == 150
Temperatures == { T_sun + 19 * i : i \in (0 - MaxTempIdx)..MaxTempIdx }

\* the inputs the mass/period selection is applied to on its own
MaxSelLen == 3
SelRows == { [pl_name |-> "p", pl_bmasse |-> m, pl_orbper |-> p] : m \in 1..3, p \in 1..2 }
SelInputs ==
    { c \in [rows : UNION { [1..k -> SelRows] : k \in 0..MaxSelLen },
             min_mass : 1..3, max_mass : 1..3, min_period : 1..2, max_period : 1..2] :
        c.min_mass <= c.max_mass /\ c.min_period <= c.max_period }

(***************************************************************************)
(* The script as a state machine: one action per block of the script, a    *)
(* run of the script going sidebar, tab 1 .. tab 6.  An uncaught exception *)
(* ends the run.  Any interaction of the user starts the next run from the *)
(* top with fresh locals; what the runs share is the two caches.           *)
(***************************************************************************)
VARIABLES
    memo,                  \* the cache of fetch_exoplanet_data, by limit
    ai_memo,               \* the cache of get_ai_response, by question
    pc,                    \* the block the run is about to execute
    dataset_count,
    df,                    \* the script's variable df; between runs, the frame on the page
    sliders,               \* min_mass, max_mass, min_period, max_period, eccentricity
    filtered_df,
    fig,                   \* the traces of tab 1
    habitable_exoplanets,
    messages,              \* what st.error / st.write have put on the page in this run
    last_fetch,            \* the call of fetch_exoplanet_data made by the last step
    exception,             \* the uncaught exception that ended the run, or ""
    ai,                    \* tab 6: the question, the response and what was rendered
    star_teff_in, hz_out,  \* calculate_habitable_zone applied on its own
    sel_in, sel_out        \* the mass/period selection applied on its own

vars == <<memo, ai_memo, pc, dataset_count, df, sliders, filtered_df, fig,
          habitable_exoplanets, messages, last_fetch, exception, ai,
          star_teff_in, hz_out, sel_in, sel_out>>

appVars == <<memo, ai_memo, pc, dataset_count, df, sliders, filtered_df, fig,
             habitable_exoplanets, messages, last_fetch, exception, ai>>

Blocks == {"start", "tab1", "tab2", "tab3", "tab4", "tab5", "tab6", "done", "exception"}

NoFetch == [site |-> "none", queried |-> FALSE, kind |-> "none", failed |-> FALSE,
            returned |-> 0]

FetchRecord(site, f, remote) ==
    [site |-> site, queried |-> f.queried, kind |-> f.kind, failed |-> f.value.none,
     returned |-> IF f.queried THEN Len(remote.rows) ELSE 0]

NoSliders == [min_mass |-> NaN, max_mass |-> NaN, min_period |-> NaN,
              max_period |-> NaN, eccentricity |-> 0]

NoAi == [query |-> "", response |-> NoText, from |-> NoOutcome, rendered |-> "nothing"]

InitApp ==
    /\ memo = [l \in Limits |-> NoEntry]
    /\ ai_memo = [q \in Questions |-> NoAnswer]
    /\ pc = "start"
    /\ dataset_count = 1
    /\ df = None
    /\ sliders = NoSliders
    /\ filtered_df = None
    /\ fig = <<>>
    /\ habitable_exoplanets = None
    /\ messages = {}
    /\ last_fetch = NoFetch
    /\ exception = ""
    /\ ai = NoAi

InitPure ==
    /\ star_teff_in = T_sun /\ hz_out = <<>>
    /\ sel_in = [rows |-> <<>>, min_mass |-> 1, max_mass |-> 1,
                 min_period |-> 1, max_period |-> 1]
    /\ sel_out = None

Init == InitApp /\ InitPure

UnchangedPure == UNCHANGED <<star_teff_in, hz_out, sel_in, sel_out>>

\* The user touches a widget: Streamlit runs the script again from the top.
\* The locals of the finished run are gone; the page keeps showing its
\* frame until the new run replaces it.
Rerun ==
    /\ pc \in {"done", "exception"}
    /\ pc' = "start"
    /\ sliders' = NoSliders
    /\ filtered_df' = None /\ fig' = <<>> /\ habitable_exoplanets' = None
    /\ messages' = {} /\ last_fetch' = NoFetch /\ exception' = "" /\ ai' = NoAi
    /\ UNCHANGED <<memo, ai_memo, dataset_count, df>>
    /\ UnchangedPure

\* lines 121-135
Sidebar(Rows, Eccs) ==
    /\ pc = "start"
    /\ \E limit \in Limits : \E remote \in Remotes(memo, Rows, limit) :
        LET f == fetch_exoplanet_data(memo, limit, remote)
            d == IF f.value.none THEN None
                 ELSE DataFrame(dropna(f.value.rows, SidebarSubset))
        IN  /\ memo' = f.memo
            /\ dataset_count' = limit
            /\ df' = d
            /\ last_fetch' = FetchRecord("sidebar", f, remote)
            /\ messages' = f.msgs
            /\ IF d.none
               THEN \* line 130: df['pl_bmasse'] on None
                    /\ exception' = "TypeError" /\ pc' = "exception"
                    /\ sliders' = NoSliders
               ELSE /\ exception' = "" /\ pc' = "tab1"
                    /\ \E lo_m \in Slider(ColMin(d.rows, "pl_bmasse"),
                                          ColMax(d.rows, "pl_bmasse"),
                                          ColMin(d.rows, "pl_bmasse")) :
                       \E hi_m \in Slider(lo_m, ColMax(d.rows, "pl_bmasse"),
                                          ColMax(d.rows, "pl_bmasse")) :
                       \E lo_p \in Slider(ColMin(d.rows, "pl_orbper"),
                                          ColMax(d.rows, "pl_orbper"),
                                          ColMin(d.rows, "pl_orbper")) :
                       \E hi_p \in Slider(lo_p, ColMax(d.rows, "pl_orbper"),
                                          ColMax(d.rows, "pl_orbper")) :
                       \E e \in Eccs :
                          sliders' = [min_mass |-> lo_m, max_mass |-> hi_m,
                                      min_period |-> lo_p, max_period |-> hi_p,
                                      eccentricity |-> e]
    /\ UNCHANGED <<ai_memo, filtered_df, fig, habitable_exoplanets, ai>>
    /\ UnchangedPure

\* lines 139-176
Tab1 ==
    /\ pc = "tab1"
    /\ IF ~df.none
       THEN LET sel == SelectMassPeriod(df.rows, sliders.min_mass, sliders.max_mass,
                                        sliders.min_period, sliders.max_period)
            IN  /\ filtered_df' = DataFrame(sel)
                /\ IF sel = <<>>
                   THEN /\ messages' = messages \cup {"No planets match your filters!"}
                        /\ fig' = <<>>
                   ELSE /\ messages' = messages
                        /\ fig' = Traces(sel, sliders.eccentricity)
       ELSE UNCHANGED <<filtered_df, messages, fig>>
    /\ pc' = "tab2"
    /\ last_fetch' = NoFetch
    /\ UNCHANGED <<memo, ai_memo, dataset_count, df, sliders, habitable_exoplanets,
                   exception, ai>>
    /\ UnchangedPure

\* lines 206-219: the table of df
Tab2 ==
    /\ pc = "tab2"
    /\ pc' = "tab3"
    /\ UNCHANGED <<memo, ai_memo, dataset_count, df, sliders, filtered_df, fig,
                   habitable_exoplanets, messages, last_fetch, exception, ai>>
    /\ UnchangedPure

\* lines 222-235: the 3D scatter of df
Tab3 ==
    /\ pc = "tab3"
    /\ pc' = "tab4"
    /\ UNCHANGED <<memo, ai_memo, dataset_count, df, sliders, filtered_df, fig,
                   habitable_exoplanets, messages, last_fetch, exception, ai>>
    /\ UnchangedPure

\* lines 237-289.  On a frame without rows df.apply(..., axis=1) returns an
\* empty float series (line 277); indexing the frame with it selects columns,
\* none of them (line 279), and picking the five columns out of that frame
\* raises KeyError (line 281).
Tab4(Rows) ==
    /\ pc = "tab4"
    /\ \E remote \in Remotes(memo, Rows, dataset_count) :
        LET f == fetch_exoplanet_data(memo, dataset_count, remote)
        IN  /\ memo' = f.memo
            /\ df' = f.value
            /\ last_fetch' = FetchRecord("tab4", f, remote)
            /\ messages' = messages \cup f.msgs
            /\ IF f.value.none
               THEN /\ habitable_exoplanets' = None
                    /\ exception' = "" /\ pc' = "tab5"
               ELSE IF f.value.rows = <<>>
               THEN /\ habitable_exoplanets' = DataFrame(<<>>)
                    /\ exception' = "KeyError" /\ pc' = "exception"
               ELSE /\ habitable_exoplanets' = DataFrame(HabitableExoplanets(f.value.rows))
                    /\ exception' = "" /\ pc' = "tab5"
    /\ UNCHANGED <<ai_memo, dataset_count, sliders, filtered_df, fig, ai>>
    /\ UnchangedPure

\* lines 291-300: the Refresh Data button
Tab5(Rows) ==
    /\ pc = "tab5"
    /\ \E pressed \in BOOLEAN :
        IF pressed
        THEN \E remote \in Remotes(memo, Rows, dataset_count) :
                LET f == fetch_exoplanet_data(memo, dataset_count, remote)
                IN  /\ memo' = f.memo
                    /\ df' = f.value
                    /\ last_fetch' = FetchRecord("refresh", f, remote)
                    /\ messages' = messages \cup f.msgs \cup {"Data refreshed successfully!"}
                    /\ IF f.value.none
                       THEN \* line 297: df[[...]] on None
                            exception' = "TypeError" /\ pc' = "exception"
                       ELSE exception' = "" /\ pc' = "tab6"
        ELSE /\ pc' = "tab6"
             /\ last_fetch' = NoFetch
             /\ UNCHANGED <<memo, df, messages, exception>>
    /\ UNCHANGED <<ai_memo, dataset_count, sliders, filtered_df, fig,
                   habitable_exoplanets, ai>>
    /\ UnchangedPure

\* lines 341-364: the question box
Tab6(Qs) ==
    /\ pc = "tab6"
    /\ \E query \in Qs :
        IF query # ""
        THEN \E outcome \in AIOutcomes :
                LET g == get_ai_response(ai_memo, query, outcome)
                IN  /\ ai_memo' = g.memo
                    /\ ai' = [query |-> query, response |-> g.value, from |-> g.from,
                              rendered |-> Render(g.value)]
        ELSE /\ ai' = NoAi
             /\ UNCHANGED ai_memo
    /\ pc' = "done"
    /\ last_fetch' = NoFetch
    /\ UNCHANGED <<memo, dataset_count, df, sliders, filtered_df, fig,
                   habitable_exoplanets, messages, exception>>
    /\ UnchangedPure

\* Time passes by half the validity window, while the script is at one of Pcs;
\* an entry as old as the window is gone (ttl=3600).
Tick(Pcs) ==
    /\ pc \in Pcs
    /\ \/ \E k \in DOMAIN memo : memo[k].has
       \/ \E k \in DOMAIN ai_memo : ai_memo[k].has
    /\ memo' = [k \in DOMAIN memo |->
                  IF memo[k].has /\ memo[k].age + (TTL \div 2) < TTL
                  THEN [memo[k] EXCEPT !.age = memo[k].age + (TTL \div 2)]
                  ELSE NoEntry]
    /\ ai_memo' = [k \in DOMAIN ai_memo |->
                  IF ai_memo[k].has /\ ai_memo[k].age + (TTL \div 2) < TTL
                  THEN [ai_memo[k] EXCEPT !.age = ai_memo[k].age + (TTL \div 2)]
                  ELSE NoAnswer]
    /\ UNCHANGED <<pc, dataset_count, df, sliders, filtered_df, fig,
                   habitable_exoplanets, messages, last_fetch, exception, ai>>
    /\ UnchangedPure

Next ==
    \/ Rerun
    \/ Sidebar(CatalogRows, SliderEnds)
    \/ Tab1
    \/ Tab2
    \/ Tab3
    \/ Tab4(CatalogRows)
    \/ Tab5(CatalogRows)
    \/ Tab6({""})
    \/ Tick(Blocks)

\* The runs of the script over the whole catalog, the question box left
\* empty; time passes at any point, also inside a run.
Spec == Init /\ [][Next]_vars

NextAmplitude ==
    \/ Rerun
    \/ Sidebar(AmplitudeRows, Eccentricities)
    \/ Tab1
    \/ Tab2
    \/ Tab3
    \/ Tab4(AmplitudeRows)
    \/ Tab5(AmplitudeRows)
    \/ Tab6({""})
    \/ Tick(Blocks)

\* The runs of the script over a catalog with zero periods and masses.
SpecAmplitude == Init /\ [][NextAmplitude]_vars

NextAdvisory ==
    \/ Rerun
    \/ Sidebar(AdvisoryRows, SliderEnds)
    \/ Tab1
    \/ Tab2
    \/ Tab3
    \/ Tab4(AdvisoryRows)
    \/ Tab5(AdvisoryRows)
    \/ Tab6(Queries)
    \/ Tick(Blocks)

\* The runs of the script over a one-row catalog, with the question box;
\* time passes at any point, also inside a run.
SpecAdvisory == Init /\ [][NextAdvisory]_vars

\* calculate_habitable_zone on its own
InitHZ ==
    /\ InitApp
    /\ star_teff_in \in Temperatures /\ hz_out = <<>>
    /\ sel_in = [rows |-> <<>>, min_mass |-> 1, max_mass |-> 1,
                 min_period |-> 1, max_period |-> 1]
    /\ sel_out = None

ApplyHZ ==
    /\ hz_out = <<>>
    /\ hz_out' = calculate_habitable_zone(star_teff_in)
    /\ UNCHANGED <<star_teff_in, sel_in, sel_out>>
    /\ UNCHANGED appVars

NextHZ == ApplyHZ

SpecHZ == InitHZ /\ [][NextHZ]_vars

\* the mass/period selection on its own
InitSelect ==
    /\ InitApp
    /\ star_teff_in = T_sun /\ hz_out = <<>>
    /\ sel_in \in SelInputs
    /\ sel_out = None

ApplySelect ==
    /\ sel_out.none
    /\ sel_out' = DataFrame(SelectMassPeriod(sel_in.rows, sel_in.min_mass, sel_in.max_mass,
                                            sel_in.min_period, sel_in.max_period))
    /\ UNCHANGED <<star_teff_in, hz_out, sel_in>>
    /\ UNCHANGED appVars

NextSelect == ApplySelect

SpecSelect == InitSelect /\ [][NextSelect]_vars

(***************************************************************************)
(* Properties.                                                             *)
(***************************************************************************)
ErrorMessages == {ErrFetch, ErrProcess}

AllPresent(rows, fields) ==
    \A i \in 1..Len(rows) : \A f \in fields : ~IsNaN(rows[i][f])

\* the rows of R at the indices of keep, in the order of R
KeptInOrder(R, keep) ==
    [j \in 1..Cardinality(keep) |->
        R[CHOOSE i \in keep : Cardinality({k \in keep : k < i}) = j - 1]]

\* innerAU <= axis <= outerAU stated on the flux terms themselves, without
\* radii: Seff_inner > 0, Seff_outer > 0 and
\*   L <= axis^2 * Seff_inner  and  axis^2 * Seff_outer <= L,
\* with L = (T / T_sun)^4, everything times 10^15 * T_sun^4.
WithinZone(T, axis) ==
    /\ ~IsNaN(T) /\ ~IsNaN(axis)
    /\ LET si == Seff(1, T)
           so == Seff(2, T)
           L  == BigPow10(BigPowSmall(T, 4), 15)
           A(x) == BigMul(BigMulSmall(BigMulSmall(x, axis), axis), BigPowSmall(T_sun, 4))
       IN  /\ SeffPositive(si) /\ SeffPositive(so)
           /\ BigLeq(BigAdd(L, A(si.neg)), A(si.pos))
           /\ BigLeq(A(so.pos), BigAdd(L, A(so.neg)))

\* C1 (as claimed): a step whose fetch queried the catalog and failed while a
\* record set was active leaves that record set in df.
C1_FailedFetchKeepsPriorData ==
    [][ (last_fetch'.queried /\ last_fetch'.failed /\ last_fetch' # last_fetch /\ ~df.none)
            => df' = df ]_vars

\* C2 (as claimed): the fetch made by the Refresh Data button always queries
\* the catalog.
C2_RefreshAlwaysQueries ==
    last_fetch.site = "refresh" => last_fetch.queried

\* C3 (as claimed): no entry of the fetch memo holds a failure (None).
C3_MemoHoldsOnlySuccesses ==
    \A l \in Limits : memo[l].has => ~memo[l].value.none

RequiredSix == {"pl_bmasse", "pl_orbper", "pl_orbsmax", "pl_orbeccen", "st_mass", "st_teff"}

\* C4 (as claimed): every record of every frame the fetch returns, memoizes
\* or hands to a view has planet mass, period, semi-major axis, eccentricity,
\* star mass and star temperature present.
C4_AllSixFieldsPresent ==
    /\ \A l \in Limits : memo[l].has => AllPresent(memo[l].value.rows, RequiredSix)
    /\ AllPresent(df.rows, RequiredSix)
    /\ AllPresent(filtered_df.rows, RequiredSix)
    /\ AllPresent(habitable_exoplanets.rows, RequiredSix)

RequiredAtIngestion == {"pl_bmasse", "pl_orbper", "pl_orbsmax", "st_mass"}

\* C4 (amended): every record the fetch returns or memoizes has planet mass,
\* period, semi-major axis and star mass present; the records tabs 1-3 work
\* on (df from the sidebar up to tab 4, and the selection) have eccentricity
\* too; the records listed in the habitable-zone view have the star
\* temperature too.
C4_FieldsPresentPerView ==
    /\ \A l \in Limits : memo[l].has => AllPresent(memo[l].value.rows, RequiredAtIngestion)
    /\ AllPresent(df.rows, RequiredAtIngestion)
    /\ pc \in {"tab1", "tab2", "tab3", "tab4"} => AllPresent(df.rows, RequiredAtIngestion \cup {"pl_orbeccen"})
    /\ AllPresent(filtered_df.rows, RequiredAtIngestion \cup {"pl_orbeccen"})
    /\ AllPresent(habitable_exoplanets.rows, RequiredAtIngestion \cup {"st_teff"})

\* tab 4 has listed a record without eccentricity, out of a frame that also
\* holds a record without star temperature
C4_Witness ==
    /\ pc = "tab5"
    /\ \E i \in 1..Len(habitable_exoplanets.rows) :
          IsNaN(habitable_exoplanets.rows[i].pl_orbeccen)
    /\ \E i \in 1..Len(df.rows) : IsNaN(df.rows[i].st_teff)

\* C5 (as claimed): when both flux terms are positive,
\* calculate_habitable_zone returns an inner radius below the outer radius.
C5_InnerBelowOuter ==
    (/\ hz_out # <<>>
     /\ SeffPositive(Seff(1, star_teff_in))
     /\ SeffPositive(Seff(2, star_teff_in)))
        => RadiusLess(hz_out[1], hz_out[2])

\* C6 (as claimed): every trace of tab 1 was computed with an eccentricity
\* below 1 and has a finite amplitude.
C6_AmplitudeFinite ==
    \A i \in 1..Len(fig) :
        sliders.eccentricity < 100 /\ fig[i].curve.K.kind = "finite"

\* C7: the selection returns exactly the rows with
\* min_mass <= mass <= max_mass and min_period <= period <= max_period,
\* in the order of the input.
C7_SelectionExact ==
    ~sel_out.none =>
        LET R    == sel_in.rows
            keep == { i \in 1..Len(R) :
                        /\ sel_in.min_mass <= R[i].pl_bmasse
                        /\ R[i].pl_bmasse <= sel_in.max_mass
                        /\ sel_in.min_period <= R[i].pl_orbper
                        /\ R[i].pl_orbper <= sel_in.max_period }
        IN  sel_out.rows = KeptInOrder(R, keep)

\* a selection with min_mass = max_mass that kept two rows and dropped others
C7_Witness ==
    /\ ~sel_out.none
    /\ sel_in.min_mass = sel_in.max_mass
    /\ Len(sel_out.rows) >= 2
    /\ Len(sel_out.rows) < Len(sel_in.rows)
    /\ sel_out.rows[1] # sel_out.rows[2]

\* C8: the habitable-zone view that tab 4 has just built is the rows of the
\* fetched frame with innerAU <= semi-major axis <= outerAU, in their order;
\* it is determined by the fetched frame alone, whatever the sliders say.
C8_HabitableViewOfFetched ==
    (pc = "tab5" /\ ~habitable_exoplanets.none) =>
        LET R    == df.rows
            keep == { i \in 1..Len(R) : WithinZone(R[i].st_teff, R[i].pl_orbsmax) }
        IN  /\ ~df.none
            /\ habitable_exoplanets.rows = KeptInOrder(R, keep)

\* tab 4 has listed, among others it has not, a record that the mass/period
\* selection of the same run excluded
C8_Witness ==
    /\ pc = "tab5"
    /\ ~filtered_df.none /\ filtered_df.rows # <<>>
    /\ Len(habitable_exoplanets.rows) < Len(df.rows)
    /\ \E i \in 1..Len(habitable_exoplanets.rows) :
          /\ ~IsNaN(habitable_exoplanets.rows[i].pl_orbeccen)
          /\ \A j \in 1..Len(filtered_df.rows) :
                filtered_df.rows[j] # habitable_exoplanets.rows[i]

\* C9 (as claimed): when the catalog answers with rows of which none is left
\* (none returned, or all dropped), or the selection is empty, the run shows
\* "no matches": no failed fetch, no error message, no exception.
C9_EmptyIsNotAnError ==
    /\ (/\ last_fetch.queried /\ last_fetch.kind = "rows"
        /\ (last_fetch.returned = 0 \/ (~df.none /\ df.rows = <<>>)))
          => (~last_fetch.failed /\ messages \cap ErrorMessages = {} /\ exception = "")
    /\ (~filtered_df.none /\ filtered_df.rows = <<>>)
          => ("No planets match your filters!" \in messages /\ exception = "")

\* C10 (as claimed): every failed fetch comes back as a value with a message,
\* and tab 6 renders an error exactly for the responses that a failure of
\* the text service produced.
C10_FailuresAreTypedValues ==
    /\ (last_fetch.queried /\ last_fetch.failed) => messages \cap ErrorMessages # {}
    /\ ai.query # "" => (ai.rendered = "error" <=> ai.from = "exception")
====
